---- MODULE Spec2Model ----
(***************************************************************************)
(* A model of the chat-scoped RAG backend (backend/main.py,                *)
(* backend/rag_system.py, backend/document_processor.py,                   *)
(* backend/database.py).                                                   *)
(*                                                                         *)
(* The four tables hold the COMMITTED rows of the database.  Every request *)
(* handler is an `async def` run on one event loop: it runs without        *)
(* interruption from one `await` that suspends to the next, so there is    *)
(* one action per such stretch of code.  The suspension points are         *)
(* `await file.read()` (main.py:104) and the executor call inside          *)
(* `get_embedding` (rag_system.py:223).  `generate_response` holds no       *)
(* suspending await: `self.client.chat(...)` (rag_system.py:309) is a      *)
(* synchronous call made on the event loop's thread, so while a query is   *)
(* inside it no other coroutine of the process runs (uvicorn.run starts    *)
(* one process with one loop, main.py:315).                                *)
(*                                                                         *)
(* Rows a handler has `db.add`-ed but not committed live in its session    *)
(* only (autoflush=False) and are lost when the request ends in an error.  *)
(*                                                                         *)
(* Numbers are in tenths: an embedding is a point on a line (the 384       *)
(* dimensions of the sentence-transformer are reduced to one), 10 is 1.0.  *)
(***************************************************************************)
EXTENDS Integers, Sequences, FiniteSets, TLC

\* ------------------------------------------------------------- bounds
MaxChats == 2
MaxUploads == 2
MaxQueries == 2
\* upload, query and delete requests received in one run
MaxRequests == 3

\* ------------------------------------------------- program constants
TOP_K == 5
MIN_CHUNK_LEN == 50
ONE == 10
FALLBACK_SCORE == 5

NO_DOCUMENTS_RESPONSE == "I don't have any documents uploaded for this chat yet. Please upload some documents first to ask questions about them."
APOLOGY == "I apologize, but I encountered an error while generating a response"
COMPLETION == "completion"
ALREADY_EXISTS == "File already exists in this chat"
UNSUPPORTED == "Unsupported file type"

\* ------------------------------------------------------------- inputs
\* A stretch of text: its name, the whitespace around it and the length of
\* what is left when that whitespace is stripped.
P1 == [t |-> "p1", ws |-> 2, n |-> 60]
P2 == [t |-> "p2", ws |-> 0, n |-> 50]
P3 == [t |-> "p3", ws |-> 1, n |-> 51]
P4 == [t |-> "p4", ws |-> 0, n |-> 80]
P5 == [t |-> "p5", ws |-> 3, n |-> 49]
P6 == [t |-> "p6", ws |-> 0, n |-> 70]
P7 == [t |-> "p7", ws |-> 4, n |-> 52]
P8 == [t |-> "p8", ws |-> 0, n |-> 90]

\* An uploaded file: its name (stem, extension), whether its bytes can be
\* extracted / decoded, and the text they hold (as the pieces the splitter
\* cuts it into).
FileA == [filename |-> <<"a", ".txt">>, valid |-> TRUE, text |-> <<P1, P2, P3>>]
FileB == [filename |-> <<"b", ".pdf">>, valid |-> TRUE, text |-> <<P4>>]
FileC == [filename |-> <<"c", ".docx">>, valid |-> FALSE, text |-> <<>>]
FileD == [filename |-> <<"d", ".exe">>, valid |-> TRUE, text |-> <<P1>>]

Batches == { <<FileA>>, <<FileB, FileB>>, <<FileC, FileB>>, <<FileD, FileB, FileC>> }

\* A longer document, and the documents made of its first pieces
LongText == <<P1, P2, P6, P5, P3, P7, P4, P8>>

Texts == {SubSeq(LongText, 1, k) : k \in 1..Len(LongText)}

FileE(text) == [filename |-> <<"e", ".txt">>, valid |-> TRUE, text |-> text]

LongBatches == {<<FileE(text)>> : text \in Texts} \cup {<<FileB>>}

QueryTexts == {"q1", "q2"}
ChatIds == 1..MaxChats
UploadIds == 1..MaxUploads
QueryIds == 1..MaxQueries
FilePositions == UNION {DOMAIN files : files \in Batches}

VARIABLES
    chats,            \* rows of table chats
    documents,        \* rows of table documents
    document_chunks,  \* rows of table document_chunks
    chat_messages,    \* rows of table chat_messages
    now,              \* datetime.utcnow()
    next_chat,        \* uuid.uuid4(): the next fresh chat identifier
    uploads,          \* the upload_documents requests and their locals
    queries,          \* the query_documents requests and their locals
    received          \* the number of upload, query and delete requests so far

db == <<chats, documents, document_chunks, chat_messages>>
vars == <<chats, documents, document_chunks, chat_messages, now, next_chat, uploads, queries, received>>

\* ------------------------------------------------------------ helpers
Range(s) == {s[i] : i \in DOMAIN s}

Min(a, b) == IF a <= b THEN a ELSE b

\* str.endswith on a filename held as <<stem, extension>>
endswith(filename, suffix) == Len(filename) > 0 /\ filename[Len(filename)] = suffix

\* str.strip and len on a stretch of text
strip(p) == [p EXCEPT !.ws = 0]

len(p) == p.ws + p.n

\* SentenceTransformer.encode: a fixed function of the text
encode(text) ==
    CASE text = "p1" -> 10
      [] text = "p2" -> 20
      [] text = "p3" -> 30
      [] text = "p4" -> 50
      [] text = "p5" -> 12
      [] text = "p6" -> 14
      [] text = "p7" -> 40
      [] text = "p8" -> 46
      [] text = "q1" -> 12
      [] text = "q2" -> 48
      [] OTHER -> 0

\* pgvector's <-> : the L2 distance
distance(a, b) == IF a >= b THEN a - b ELSE b - a

\* ------------------------------------------------- document_processor
extraction_error == [kind |-> "error", text |-> <<>>]

process_pdf(file) == IF file.valid THEN [kind |-> "text", text |-> file.text] ELSE extraction_error

process_docx(file) == IF file.valid THEN [kind |-> "text", text |-> file.text] ELSE extraction_error

decode_utf8(file) == IF file.valid THEN [kind |-> "text", text |-> file.text] ELSE extraction_error

\* RecursiveCharacterTextSplitter.split_text: the text is held as its pieces
split_text(text) == text

KeepChunk(chunk) == len(strip(chunk)) > MIN_CHUNK_LEN

chunk_text(text) == SelectSeq(split_text(text), KeepChunk)

\* (mutant) a file of another type is an error like a file that cannot be read
extract_text_strict(file) ==
    IF endswith(file.filename, ".pdf") THEN process_pdf(file)
    ELSE IF endswith(file.filename, ".docx") THEN process_docx(file)
    ELSE IF endswith(file.filename, ".txt") THEN decode_utf8(file)
    ELSE extraction_error

\* main.py:106-118, the dispatch on the file's extension
extract_text(file) ==
    IF endswith(file.filename, ".pdf") THEN process_pdf(file)
    ELSE IF endswith(file.filename, ".docx") THEN process_docx(file)
    ELSE IF endswith(file.filename, ".txt") THEN decode_utf8(file)
    ELSE [kind |-> "unsupported", text |-> <<>>]

\* ------------------------------------------------------------- tables
ChatExists(cs, chat_id) == \E c \in cs : c.id = chat_id

\* (mutant) the filenames of the chat are not read
existing_filenames_none(docs, chat_id) == {}

existing_filenames_of(docs, chat_id) == {d.filename : d \in {x \in docs : x.chat_id = chat_id}}

\* (mutant) the duplicate check always lets the file through
AlreadyExistsNever(filename, existing_filenames) == FALSE

\* `if file.filename in existing_filenames` (main.py:96)
AlreadyExists(filename, existing_filenames) == filename \in existing_filenames

\* uuid.uuid4() gives every row an identifier no other row has: a document is
\* named after the request and the file that made it, a chunk after its
\* document and position, a message after its request.
DocumentId(r, i) == 10 * r + i

ChunkId(document_id, i) == 10 * document_id + i

MessageId(q) == 1000 + q

\* (upload_date is not modelled: nothing reads it but the order of a listing)
NewDocument(id, chat_id, file, text_content) ==
    [id |-> id, chat_id |-> chat_id, filename |-> file.filename, content |-> text_content]

\* (mutant) enumerate(chunks, 1): the positions are counted from one
NewDocumentChunkFromOne(chat_id, document_id, chunk, i) ==
    [id |-> ChunkId(document_id, i), chat_id |-> chat_id, document_id |-> document_id,
     chunk_text |-> chunk, chunk_index |-> i + 1, embedding |-> encode(chunk.t)]

NewDocumentChunk(chat_id, document_id, chunk, i) ==
    [id |-> ChunkId(document_id, i), chat_id |-> chat_id, document_id |-> document_id,
     chunk_text |-> chunk, chunk_index |-> i, embedding |-> encode(chunk.t)]

NewChatMessage(id, chat_id, message, response, t) ==
    [id |-> id, chat_id |-> chat_id, message |-> message, response |-> response,
     timestamp |-> t]

\* (mutant) the update of the timestamp without its filter on the chat
TouchEveryChat(cs, chat_id, t) == {[c EXCEPT !.updated_at = t] : c \in cs}

TouchChat(cs, chat_id, t) ==
    {IF c.id = chat_id THEN [c EXCEPT !.updated_at = t] ELSE c : c \in cs}

\* ---------------------------------------------------------- rag_system
\* the orderings of m distinct elements of S
RECURSIVE Arrangements(_, _)
Arrangements(S, m) ==
    IF m = 0 THEN {<<>>}
    ELSE UNION {{Append(s, x) : x \in S \ Range(s)} : s \in Arrangements(S, m - 1)}

\* (mutant) the similarity query without its WHERE clause
ScopedToAnyChat(dc, chat_id) == TRUE

\* WHERE dc.chat_id = :chat_id
ScopedTo(dc, chat_id) == dc.chat_id = chat_id

\* FROM document_chunks dc JOIN documents d ON dc.document_id = d.id WHERE ...
JoinRows(chunks, docs, chat_id, qe) ==
    {[dc |-> p[1], filename |-> p[2].filename, distance |-> distance(p[1].embedding, qe)] :
        p \in {x \in chunks \X docs : x[1].document_id = x[2].id /\ ScopedTo(x[1], chat_id)}}

\* (mutant) the similarity query without its ORDER BY
LimitWithoutOrder(rows, limit) == Arrangements(rows, Min(limit, Cardinality(rows)))

\* ORDER BY dc.embedding <-> :query_embedding LIMIT :limit
\* Rows at the same distance come in any order: every answer the database
\* may give is in the set.
OrderByDistanceLimit(rows, limit) ==
    LET m == Min(limit, Cardinality(rows)) IN
    {s \in Arrangements(rows, m) :
        /\ \A i, j \in 1..m : i < j => s[i].distance <= s[j].distance
        /\ \A x \in rows \ Range(s) : \A i \in 1..m : s[i].distance <= x.distance}

similarity_query(chunks, docs, chat_id, qe, limit) ==
    OrderByDistanceLimit(JoinRows(chunks, docs, chat_id, qe), limit)

\* db.query(DocumentChunk).filter(DocumentChunk.chat_id == chat_id).limit(top_k).all()
\* No ORDER BY: any top_k of the chat's chunks, in any order.
fallback_query(chunks, chat_id, limit) ==
    LET rows == {dc \in chunks : dc.chat_id = chat_id} IN
    Arrangements(rows, Min(limit, Cardinality(rows)))

PrimaryResult(row) ==
    [text |-> row.dc.chunk_text, chunk_index |-> row.dc.chunk_index,
     filename |-> row.filename, similarity_score |-> ONE - row.distance]

FallbackResult(dc) ==
    [text |-> dc.chunk_text, chunk_index |-> dc.chunk_index,
     filename |-> <<"unknown">>, similarity_score |-> FALLBACK_SCORE]

\* What the environment does to one call of get_relevant_chunks:
\*   "none"          the embedding and the similarity query both succeed
\*   "embedding"     get_embedding raises, the fallback query runs
\*   "search"        the similarity query raises, the fallback query runs
\*   "search_abort"  the similarity query raises and so does the fallback query
\*                   run on the same session (it is in no try block)
Faults == {"none", "embedding", "search", "search_abort"}

\* get_relevant_chunks: every outcome the call may have, as
\* [raised, rows (the table rows selected), chunks (the dicts returned)]
get_relevant_chunks(chunks, docs, query, chat_id, top_k, fault) ==
    IF fault = "none"
    THEN {[raised |-> FALSE, path |-> "primary",
           chunks |-> [i \in DOMAIN rows |-> PrimaryResult(rows[i])]] :
             rows \in similarity_query(chunks, docs, chat_id, encode(query), top_k)}
    ELSE IF fault = "search_abort"
    THEN {[raised |-> TRUE, path |-> "fallback", chunks |-> <<>>]}
    ELSE {[raised |-> FALSE, path |-> "fallback",
           chunks |-> [i \in DOMAIN rows |-> FallbackResult(rows[i])]] :
             rows \in fallback_query(chunks, chat_id, top_k)}

\* (mutant) the except branch hands back the bare error text
generate_response_error_text(query, relevant_chunks, model_ok) ==
    IF model_ok THEN COMPLETION ELSE "error"

\* generate_response: the model's completion, or the apology when the call
\* fails (the prompt, built from the query and the chunks, does not decide which)
generate_response(query, relevant_chunks, model_ok) ==
    IF model_ok THEN COMPLETION ELSE APOLOGY

\* ---------------------------------------------------------------- main
IdleUpload ==
    [pc |-> "idle", chat_id |-> 0, files |-> <<>>, existing_filenames |-> {},
     i |-> 0, uploaded_docs |-> <<>>, skipped_docs |-> <<>>, doc |-> 0,
     chunks |-> <<>>, pending |-> <<>>, status |-> 0]

IdleQuery ==
    [pc |-> "idle", chat_id |-> 0, query |-> "", path |-> "",
     generated |-> FALSE, model_ok |-> TRUE, status |-> 0, response |-> "", sources |-> 0]

Skip(u, reason) ==
    [u EXCEPT !.skipped_docs = Append(@, [filename |-> u.files[u.i].filename, reason |-> reason]),
              !.i = @ + 1]

Uploaded(u, doc_id, chunks) ==
    [u EXCEPT !.uploaded_docs = Append(@, [id |-> doc_id, filename |-> u.files[u.i].filename,
                                           chunks_count |-> Len(chunks)]),
              !.i = @ + 1]

\* the handler is left: its locals are gone, the session's pending rows with them
Leave(u, code) == [u EXCEPT !.pc = "done", !.status = code, !.doc = 0, !.chunks = <<>>, !.pending = <<>>]

\* raise HTTPException: the response carries neither list
Raise(u, code) == Leave(u, code)

\* main.py:93-104: the head of the loop body, from the top of `for file in files`
\* to the next `await file.read()` or to the return statement
RECURSIVE ForLoop(_)
ForLoop(u) ==
    IF u.i > Len(u.files) THEN Leave(u, 200)
    ELSE IF AlreadyExists(u.files[u.i].filename, u.existing_filenames)
         THEN ForLoop(Skip(u, ALREADY_EXISTS))
         ELSE [u EXCEPT !.pc = "read"]

Init ==
    /\ chats = {}
    /\ documents = {}
    /\ document_chunks = {}
    /\ chat_messages = {}
    /\ now = 1
    /\ next_chat = 1
    /\ uploads = [r \in UploadIds |-> IdleUpload]
    /\ queries = [q \in QueryIds |-> IdleQuery]
    /\ received = 0

\* The event loop runs one coroutine at a time and a coroutine gives it up
\* only at an await that suspends.  A query inside the synchronous
\* `self.client.chat(...)` (rag_system.py:309) holds the loop: nothing else is
\* scheduled until the call returns.
EventLoopFree == \A q \in QueryIds : queries[q].pc # "generate"

\* a request arrives
Receive == received < MaxRequests /\ received' = received + 1

\* POST /chats
create_chat(title) ==
    /\ EventLoopFree
    /\ next_chat <= MaxChats
    /\ chats' = chats \cup {[id |-> next_chat, title |-> title, created_at |-> now, updated_at |-> now]}
    /\ next_chat' = next_chat + 1
    /\ now' = now + 1
    /\ UNCHANGED <<documents, document_chunks, chat_messages, uploads, queries, received>>

\* POST /upload-documents/{chat_id}, up to the first await
upload_documents(r, chat_id, files) ==
    /\ EventLoopFree
    /\ uploads[r].pc = "idle"
    /\ \A s \in UploadIds : s < r => uploads[s].pc # "idle"
    /\ uploads' = [uploads EXCEPT ![r] =
         IF ~ChatExists(chats, chat_id)
         THEN Raise([IdleUpload EXCEPT !.chat_id = chat_id, !.files = files], 404)
         ELSE ForLoop([IdleUpload EXCEPT !.chat_id = chat_id, !.files = files, !.i = 1,
                         !.existing_filenames = existing_filenames_of(documents, chat_id)])]
    /\ Receive
    /\ UNCHANGED <<chats, documents, document_chunks, chat_messages, now, next_chat, queries>>

\* upload_documents resumed after `await file.read()` (main.py:104-133)
upload_documents_read(r) ==
    LET u == uploads[r]
        file == u.files[u.i]
        ext == extract_text(file)
        doc == NewDocument(DocumentId(r, u.i), u.chat_id, file, ext.text)
        chunks == chunk_text(ext.text)
    IN
    /\ EventLoopFree
    /\ u.pc = "read"
    /\ CASE ext.kind = "error" ->
              /\ uploads' = [uploads EXCEPT ![r] = Raise(u, 500)]
              /\ UNCHANGED <<documents>>
         [] ext.kind = "unsupported" ->
              /\ uploads' = [uploads EXCEPT ![r] = ForLoop(Skip(u, UNSUPPORTED))]
              /\ UNCHANGED <<documents>>
         [] OTHER ->
              /\ documents' = documents \cup {doc}
              /\ uploads' = [uploads EXCEPT ![r] =
                   IF chunks = <<>>
                   THEN ForLoop(Uploaded([u EXCEPT !.doc = doc.id, !.chunks = chunks, !.pending = <<>>], doc.id, chunks))
                   ELSE [u EXCEPT !.pc = "embed", !.doc = doc.id, !.chunks = chunks, !.pending = <<>>]]
    /\ UNCHANGED <<chats, document_chunks, chat_messages, now, next_chat, queries, received>>

\* upload_documents resumed after `await rag_system.get_embedding(chunk)`
\* (main.py:133-149); embedded = FALSE when get_embedding raised
upload_documents_embed(r, embedded) ==
    LET u == uploads[r]
        k == Len(u.pending)
        pend == Append(u.pending, NewDocumentChunk(u.chat_id, u.doc, u.chunks[k + 1], k))
    IN
    /\ EventLoopFree
    /\ u.pc = "embed"
    /\ IF ~embedded
       THEN /\ uploads' = [uploads EXCEPT ![r] = Raise(u, 500)]
            /\ UNCHANGED <<document_chunks>>
       ELSE IF Len(pend) < Len(u.chunks)
       THEN /\ uploads' = [uploads EXCEPT ![r] = [u EXCEPT !.pending = pend]]
            /\ UNCHANGED <<document_chunks>>
       ELSE /\ document_chunks' = document_chunks \cup Range(pend)
            \* str(doc.id) reloads the expired object: its row must still be there
            /\ uploads' = [uploads EXCEPT ![r] =
                 IF \E d \in documents : d.id = u.doc
                 THEN ForLoop(Uploaded([u EXCEPT !.pending = pend], u.doc, u.chunks))
                 ELSE Raise([u EXCEPT !.pending = pend], 500)]
    /\ UNCHANGED <<chats, documents, chat_messages, now, next_chat, queries, received>>

\* (mutant) the empty result is not short-circuited
NoChunksNever(relevant_chunks) == FALSE

\* `if not relevant_chunks` (main.py:221)
NoChunks(relevant_chunks) == relevant_chunks = <<>>

\* (mutant) the chat keeps one row: the new message replaces the earlier ones
SaveMessageReplacing(msgs, id, chat_id, query, response, t) ==
    {m \in msgs : m.chat_id # chat_id} \cup {NewChatMessage(id, chat_id, query, response, t)}

\* main.py:231-237
SaveMessage(msgs, id, chat_id, query, response, t) ==
    msgs \cup {NewChatMessage(id, chat_id, query, response, t)}

\* (mutant) the chat's timestamp is left alone
UpdateChatSkipped(cs, chat_id, t) == cs

\* (mutant) the timestamp written is one taken before the message's
UpdateChatStale(cs, chat_id, t) == TouchChat(cs, chat_id, t - 1)

\* main.py:239-242
UpdateChat(cs, chat_id, t) == TouchChat(cs, chat_id, t)

\* POST /query, up to the await inside get_embedding
query_documents(q, chat_id, text) ==
    /\ EventLoopFree
    /\ queries[q].pc = "idle"
    /\ \A s \in QueryIds : s < q => queries[s].pc # "idle"
    /\ queries' = [queries EXCEPT ![q] = [IdleQuery EXCEPT !.pc = "embed", !.chat_id = chat_id, !.query = text]]
    /\ Receive
    /\ UNCHANGED <<chats, documents, document_chunks, chat_messages, now, next_chat, uploads>>

\* query_documents resumed after the embedding of the query (main.py:219-229):
\* the search, then either the handler's return or the call of the model
query_documents_embed(q, fault) ==
    LET s == queries[q] IN
    /\ EventLoopFree
    /\ s.pc = "embed"
    /\ \E res \in get_relevant_chunks(document_chunks, documents, s.query, s.chat_id, TOP_K, fault) :
         queries' = [queries EXCEPT ![q] =
             IF res.raised
             THEN [s EXCEPT !.pc = "done", !.status = 500, !.path = res.path]
             ELSE IF NoChunks(res.chunks)
             THEN [s EXCEPT !.pc = "done", !.status = 200, !.path = res.path,
                            !.response = NO_DOCUMENTS_RESPONSE, !.sources = 0]
             ELSE [s EXCEPT !.pc = "generate", !.path = res.path, !.sources = Len(res.chunks)]]
    /\ UNCHANGED <<chats, documents, document_chunks, chat_messages, now, next_chat, uploads, received>>

\* query_documents from the return of `self.client.chat(...)` to the handler's
\* return (main.py:229-250); model_ok = FALSE when the call of the model raised
query_documents_generate(q, model_ok) ==
    LET s == queries[q]
        response == generate_response(s.query, s.sources, model_ok)
    IN
    /\ s.pc = "generate"
    /\ chat_messages' = SaveMessage(chat_messages, MessageId(q), s.chat_id, s.query, response, now)
    /\ chats' = UpdateChat(chats, s.chat_id, now)
    /\ now' = now + 1
    /\ queries' = [queries EXCEPT ![q] =
         [s EXCEPT !.pc = "done", !.status = 200, !.generated = TRUE, !.model_ok = model_ok,
                   !.response = response]]
    /\ UNCHANGED <<documents, document_chunks, next_chat, uploads, received>>

\* main.py:277, 280
DeleteChunksOfDocument(chunks, document_id) == {dc \in chunks : dc.document_id # document_id}

DeleteDocumentRow(docs, document_id) == {d \in docs : d.id # document_id}

\* DELETE /documents/{document_id}
delete_document(document_id) ==
    /\ EventLoopFree
    /\ document_chunks' = DeleteChunksOfDocument(document_chunks, document_id)
    /\ documents' = DeleteDocumentRow(documents, document_id)
    /\ Receive
    /\ UNCHANGED <<chats, chat_messages, now, next_chat, uploads, queries>>

\* main.py:292, 295, 298, 301
DeleteChunksOfChat(chunks, chat_id) == {dc \in chunks : dc.chat_id # chat_id}

DeleteDocumentsOfChat(docs, chat_id) == {d \in docs : d.chat_id # chat_id}

DeleteMessagesOfChat(msgs, chat_id) == {m \in msgs : m.chat_id # chat_id}

DeleteChatRow(cs, chat_id) == {c \in cs : c.id # chat_id}

\* DELETE /chats/{chat_id}
delete_chat(chat_id) ==
    /\ EventLoopFree
    /\ document_chunks' = DeleteChunksOfChat(document_chunks, chat_id)
    /\ documents' = DeleteDocumentsOfChat(documents, chat_id)
    /\ chat_messages' = DeleteMessagesOfChat(chat_messages, chat_id)
    /\ chats' = DeleteChatRow(chats, chat_id)
    /\ Receive
    /\ UNCHANGED <<now, next_chat, uploads, queries>>

\* GET /chats/{chat_id}/messages and GET /chats/{chat_id}/documents (the rows listed)
get_chat_messages(msgs, chat_id) == {m \in msgs : m.chat_id = chat_id}

get_chat_documents(docs, chat_id) == {d \in docs : d.chat_id = chat_id}

\* the identifiers a client may name in DELETE /documents/{document_id}
DocumentIds == {DocumentId(r, i) : r \in UploadIds, i \in FilePositions}

\* --------------------------------------------------------- the system
Next ==
    \/ \E title \in {"t"} : create_chat(title)
    \/ \E r \in UploadIds, c \in ChatIds, files \in Batches : upload_documents(r, c, files)
    \/ \E r \in UploadIds : upload_documents_read(r)
    \/ \E r \in UploadIds, embedded \in BOOLEAN : upload_documents_embed(r, embedded)
    \/ \E q \in QueryIds, c \in ChatIds, text \in QueryTexts : query_documents(q, c, text)
    \/ \E q \in QueryIds, fault \in Faults : query_documents_embed(q, fault)
    \/ \E q \in QueryIds, model_ok \in BOOLEAN : query_documents_generate(q, model_ok)
    \/ \E d \in DocumentIds : delete_document(d)
    \/ \E c \in ChatIds : delete_chat(c)

Spec == Init /\ [][Next]_vars

\* One request at a time: a request is received only when no handler is
\* suspended at an await.
InFlight ==
    \/ \E r \in UploadIds : uploads[r].pc \in {"read", "embed"}
    \/ \E q \in QueryIds : queries[q].pc \in {"embed", "generate"}

SeqNext ==
    \/ ~InFlight /\ \E title \in {"t"} : create_chat(title)
    \/ ~InFlight /\ \E r \in UploadIds, c \in ChatIds, files \in Batches : upload_documents(r, c, files)
    \/ \E r \in UploadIds : upload_documents_read(r)
    \/ \E r \in UploadIds, embedded \in BOOLEAN : upload_documents_embed(r, embedded)
    \/ ~InFlight /\ \E q \in QueryIds, c \in ChatIds, text \in QueryTexts : query_documents(q, c, text)
    \/ \E q \in QueryIds, fault \in Faults : query_documents_embed(q, fault)
    \/ \E q \in QueryIds, model_ok \in BOOLEAN : query_documents_generate(q, model_ok)
    \/ ~InFlight /\ \E d \in DocumentIds : delete_document(d)
    \/ ~InFlight /\ \E c \in ChatIds : delete_chat(c)

SeqSpec == Init /\ [][SeqNext]_vars

\* The same handlers, one request at a time, fed with the longer documents
\* (a chat then holds more chunks than top_k).
LongNext ==
    \/ ~InFlight /\ \E title \in {"t"} : create_chat(title)
    \/ ~InFlight /\ \E r \in UploadIds, c \in ChatIds, files \in LongBatches : upload_documents(r, c, files)
    \/ \E r \in UploadIds : upload_documents_read(r)
    \/ \E r \in UploadIds, embedded \in BOOLEAN : upload_documents_embed(r, embedded)
    \/ ~InFlight /\ \E q \in QueryIds, c \in ChatIds, text \in QueryTexts : query_documents(q, c, text)
    \/ \E q \in QueryIds, fault \in Faults : query_documents_embed(q, fault)
    \/ \E q \in QueryIds, model_ok \in BOOLEAN : query_documents_generate(q, model_ok)

LongSpec == Init /\ [][LongNext]_vars

\* ------------------------------------------------------------- claims
ChunksOfChat(c) == {dc \in document_chunks : dc.chat_id = c}

ChunksOfDocument(d) == {dc \in document_chunks : dc.document_id = d.id}

\* C1: whatever the query and whichever path retrieval takes, the rows
\* get_relevant_chunks selects for chat A all carry chat_id A, and every chunk
\* it returns is the text and position of a chunk stored for chat A.
C1_ChatScopedRetrieval ==
    \A c \in ChatIds, text \in QueryTexts :
        /\ \A rows \in similarity_query(document_chunks, documents, c, encode(text), TOP_K) :
             \A i \in DOMAIN rows : rows[i].dc.chat_id = c
        /\ \A rows \in fallback_query(document_chunks, c, TOP_K) :
             \A i \in DOMAIN rows : rows[i].chat_id = c
        /\ \A fault \in Faults :
             \A res \in get_relevant_chunks(document_chunks, documents, text, c, TOP_K, fault) :
               \A i \in DOMAIN res.chunks :
                 \E dc \in ChunksOfChat(c) :
                    /\ dc.chunk_text = res.chunks[i].text
                    /\ dc.chunk_index = res.chunks[i].chunk_index

\* C1 witness: a query of chat A has returned chunks while another chat B
\* holds a chunk strictly nearer to that query than every chunk of A.
C1_Witness ==
    \E q \in QueryIds, b \in ChatIds :
        LET s == queries[q] IN
        /\ s.pc = "done" /\ s.status = 200 /\ s.sources > 0 /\ s.path = "primary"
        /\ b # s.chat_id
        /\ ChunksOfChat(s.chat_id) # {}
        /\ \E x \in ChunksOfChat(b) : \A y \in ChunksOfChat(s.chat_id) :
              distance(x.embedding, encode(s.query)) < distance(y.embedding, encode(s.query))

\* C2: a committed document is there only with all of its chunks: once the
\* upload that made it has moved on (or failed), the chunk rows of a document
\* are exactly the chunks of its text, in order.
C2_DocumentWithAllChunks ==
    \A d \in documents :
        (\A r \in UploadIds : uploads[r].doc # d.id) =>
        ChunksOfDocument(d) =
            {NewDocumentChunk(d.chat_id, d.id, chunk_text(d.content)[k], k - 1) :
                k \in DOMAIN chunk_text(d.content)}

\* C3: with requests served one at a time, no chat owns two documents of the
\* same filename.
C3_UniqueFilenamePerChat ==
    \A d1, d2 \in documents :
        (d1.chat_id = d2.chat_id /\ d1.filename = d2.filename) => d1 = d2

\* the upload request that inserted a document
MadeBy(d) == d.id \div 10

\* C4: two upload requests of one chat never both leave a document of the
\* same filename in that chat.
C4_ConcurrentUploadsSerialized ==
    \A d1, d2 \in documents :
        (MadeBy(d1) # MadeBy(d2) /\ d1.chat_id = d2.chat_id) => d1.filename # d2.filename

\* C5: an upload to an existing chat always ends with the two lists, every
\* file of the batch in one of them, whatever fails on one file.
C5_BatchSurvivesFileError ==
    \A r \in UploadIds :
        LET u == uploads[r] IN
        (u.pc = "done" /\ u.status # 404) =>
            /\ u.status = 200
            /\ \A p \in DOMAIN u.files :
                  \/ \E e \in Range(u.uploaded_docs) : e.filename = u.files[p].filename
                  \/ \E e \in Range(u.skipped_docs) : e.filename = u.files[p].filename

\* the outcomes get_relevant_chunks may have had on the path a query took
OutcomesOnPath(s) ==
    get_relevant_chunks(document_chunks, documents, s.query, s.chat_id, TOP_K,
                        IF s.path = "primary" THEN "none" ELSE "embedding")

\* query q is answered in this step, on the path its record then names
Answers(q) == queries[q].pc \in {"embed", "generate"} /\ queries'[q].pc = "done" /\ queries'[q].status = 200

\* C6: a query whose retrieval returns no chunk is answered with the fixed
\* no-documents response and sources = 0, without a call of generate_response,
\* and leaves the messages and the chats (updated_at included) as they were.
C6_NoChunksNoMessage ==
    [][\A q \in QueryIds :
         (/\ Answers(q)
          /\ \A res \in OutcomesOnPath([queries[q] EXCEPT !.path = queries'[q].path]) :
                res.chunks = <<>>)
         => /\ queries'[q].response = NO_DOCUMENTS_RESPONSE
            /\ queries'[q].sources = 0
            /\ ~queries'[q].generated
            /\ chat_messages' = chat_messages
            /\ chats' = chats]_vars

\* C6 witness: a query of an existing chat that holds no chunk has been
\* answered with the no-documents response, and the chat has no message.
C6_Witness ==
    \E q \in QueryIds :
        LET s == queries[q] IN
        /\ s.pc = "done" /\ s.status = 200 /\ s.sources = 0
        /\ s.response = NO_DOCUMENTS_RESPONSE /\ ~s.generated
        /\ ChatExists(chats, s.chat_id)
        /\ ChunksOfChat(s.chat_id) = {}
        /\ get_chat_messages(chat_messages, s.chat_id) = {}

\* C7: a query answered for an existing chat that holds at least one chunk
\* adds exactly one message, of that chat and with the query as its message,
\* and touches no other message.
C7_OneMessagePerQuery ==
    [][\A q \in QueryIds :
         (/\ Answers(q)
          /\ ChatExists(chats, queries[q].chat_id)
          /\ ChunksOfChat(queries[q].chat_id) # {})
         => \E m \in chat_messages' \ chat_messages :
               /\ chat_messages' = chat_messages \cup {m}
               /\ m.chat_id = queries[q].chat_id
               /\ m.message = queries[q].query]_vars

\* C8: the message of a query and the chat's updated_at are committed
\* together: a chat's updated_at is the time of its latest message, or of
\* its creation when it has none.
C8_MessageAndTimestampTogether ==
    \A c \in chats :
        LET times == {c.created_at} \cup {m.timestamp : m \in get_chat_messages(chat_messages, c.id)} IN
        /\ c.updated_at \in times
        /\ \A t \in times : t <= c.updated_at

\* C8 witness: a chat holds the message of a query and carries its timestamp.
C8_Witness ==
    \E c \in chats, q \in QueryIds : \E m \in chat_messages :
        /\ queries[q].pc = "done" /\ queries[q].generated
        /\ m.id = MessageId(q) /\ m.chat_id = c.id
        /\ c.updated_at = m.timestamp /\ c.updated_at > c.created_at

\* C9: once delete_chat has removed a chat, no document, chunk or message
\* of that chat_id is found, then or later.
C9_DeletedChatStaysEmpty ==
    \A c \in ChatIds :
        (c < next_chat /\ ~ChatExists(chats, c)) =>
            /\ get_chat_documents(documents, c) = {}
            /\ ChunksOfChat(c) = {}
            /\ get_chat_messages(chat_messages, c) = {}

\* file p of upload r has been dealt with
Passed(u, p) == u.pc # "idle" /\ p \in DOMAIN u.files /\ p < u.i

\* C10: a file whose filename was in the chat when the upload arrived is put
\* in skipped with the already-exists reason, and no document and no chunk is
\* made for it.
C10_DuplicateSkipped ==
    \A r \in UploadIds : \A p \in DOMAIN uploads[r].files :
        LET u == uploads[r] IN
        (Passed(u, p) /\ u.files[p].filename \in u.existing_filenames) =>
            /\ [filename |-> u.files[p].filename, reason |-> ALREADY_EXISTS] \in Range(u.skipped_docs)
            /\ \A d \in documents : d.id # DocumentId(r, p)
            /\ \A dc \in document_chunks : dc.document_id # DocumentId(r, p)

\* C10 witness: an upload has returned after skipping a file whose name was
\* already in the chat, and the chat still holds one document.
C10_Witness ==
    \E r \in UploadIds : \E p \in DOMAIN uploads[r].files :
        LET u == uploads[r] IN
        /\ u.pc = "done" /\ u.status = 200
        /\ u.files[p].filename \in u.existing_filenames
        /\ [filename |-> u.files[p].filename, reason |-> ALREADY_EXISTS] \in Range(u.skipped_docs)
        /\ Cardinality(get_chat_documents(documents, u.chat_id)) = 1

\* C11: a query whose similarity search could not run (retrieval took the
\* fallback path) is never answered with an error: it completes with at most
\* top_k sources.
C11_SearchFailureNeverSurfaced ==
    \A q \in QueryIds :
        LET s == queries[q] IN
        (s.pc = "done" /\ s.path = "fallback") => (s.status = 200 /\ s.sources <= TOP_K)

\* C12: when the call of the generative model fails in a query, the query is
\* still answered with status 200, its response is the apology, and the step
\* adds exactly one message, of the query's chat, holding the query and the
\* apology; no other message changes.
C12_GenerationFailureRecorded ==
    [][\A q \in QueryIds :
         (queries[q].pc = "generate" /\ queries'[q].pc = "done" /\ ~queries'[q].model_ok)
         => /\ queries'[q].status = 200
            /\ queries'[q].response = APOLOGY
            /\ queries'[q].sources >= 1
            /\ \E m \in chat_messages' \ chat_messages :
                  /\ chat_messages' = chat_messages \cup {m}
                  /\ m.chat_id = queries[q].chat_id
                  /\ m.message = queries[q].query
                  /\ m.response = APOLOGY]_vars

\* C12 witness: a query of a chat that holds a chunk has completed after the
\* model failed, and its message with the apology is in the chat's history.
C12_Witness ==
    \E q \in QueryIds : \E m \in chat_messages :
        LET s == queries[q] IN
        /\ s.pc = "done" /\ s.status = 200 /\ s.generated /\ ~s.model_ok
        /\ ChunksOfChat(s.chat_id) # {}
        /\ m.id = MessageId(q) /\ m.chat_id = s.chat_id
        /\ m.message = s.query /\ m.response = APOLOGY
        /\ Cardinality({x \in chat_messages : x.id = MessageId(q)}) = 1

\* the distance between a returned chunk and the query
DistanceTo(chunk, query) == distance(encode(chunk.text.t), encode(query))

\* C13: when a query's retrieval runs on the primary path, whatever sequence
\* it returns has at most top_k elements, is in non-decreasing distance to the
\* query vector and in non-increasing score, and every score is 1 minus the
\* distance of its chunk.
C13_PrimaryOrderedByDistance ==
    [][\A q \in QueryIds :
         (queries[q].pc = "embed" /\ queries'[q].pc # "embed" /\ queries'[q].path = "primary")
         => /\ queries'[q].sources <= TOP_K
            /\ \A res \in OutcomesOnPath([queries[q] EXCEPT !.path = "primary"]) :
                 /\ ~res.raised
                 /\ Len(res.chunks) <= TOP_K
                 /\ \A i \in DOMAIN res.chunks :
                      res.chunks[i].similarity_score = ONE - DistanceTo(res.chunks[i], queries[q].query)
                 /\ \A i, j \in DOMAIN res.chunks :
                      i < j => /\ DistanceTo(res.chunks[i], queries[q].query)
                                    <= DistanceTo(res.chunks[j], queries[q].query)
                               /\ res.chunks[i].similarity_score >= res.chunks[j].similarity_score]_vars

\* C13 witness: a query on the primary path has returned top_k sources from a
\* chat that holds more than top_k chunks, at more than one distance.
C13_Witness ==
    \E q \in QueryIds :
        LET s == queries[q] IN
        /\ s.pc = "done" /\ s.status = 200 /\ s.path = "primary" /\ s.sources = TOP_K
        /\ Cardinality(ChunksOfChat(s.chat_id)) > TOP_K
        /\ \E x, y \in ChunksOfChat(s.chat_id) :
              distance(x.embedding, encode(s.query)) < distance(y.embedding, encode(s.query))

\* C14: a query (on the primary path) of a chat that holds n >= 1 chunks
\* returns min(n, top_k) sources: the chunks of the chat nearest to the query
\* vector, the nearest of all first.
C14_NearestChunksReturned ==
    [][\A q \in QueryIds :
         LET s == queries[q]
             n == Cardinality(ChunksOfChat(s.chat_id))
         IN
         (s.pc = "embed" /\ queries'[q].pc # "embed" /\ queries'[q].path = "primary" /\ n >= 1)
         => /\ queries'[q].sources = Min(n, TOP_K)
            /\ \A res \in OutcomesOnPath([s EXCEPT !.path = "primary"]) :
                 /\ Len(res.chunks) = Min(n, TOP_K)
                 /\ \A dc \in ChunksOfChat(s.chat_id) :
                      \/ \E i \in DOMAIN res.chunks : res.chunks[i].text = dc.chunk_text
                      \/ \A i \in DOMAIN res.chunks :
                            DistanceTo(res.chunks[i], s.query) <= distance(dc.embedding, encode(s.query))
                 /\ \A dc \in ChunksOfChat(s.chat_id) :
                      DistanceTo(res.chunks[1], s.query) <= distance(dc.embedding, encode(s.query))]_vars

\* C15: while a query is inside the call of the generative model, a suspended
\* request of another chat (an upload waiting for its file or an embedding, a
\* query waiting for its embedding) can be resumed.
C15_OtherChatsNotBlocked ==
    \A q \in QueryIds :
        queries[q].pc = "generate" =>
            /\ \A r \in UploadIds :
                 (uploads[r].pc \in {"read", "embed"} /\ uploads[r].chat_id # queries[q].chat_id)
                 => ENABLED (upload_documents_read(r) \/ \E embedded \in BOOLEAN : upload_documents_embed(r, embedded))
            /\ \A o \in QueryIds :
                 (queries[o].pc = "embed" /\ queries[o].chat_id # queries[q].chat_id)
                 => ENABLED (\E fault \in Faults : query_documents_embed(o, fault))

\* C16: every chunk row refers to a document row that exists and belongs to
\* the chunk's chat.
C16_NoDanglingChunk ==
    \A dc \in document_chunks :
        \E d \in documents : d.id = dc.document_id /\ d.chat_id = dc.chat_id

\* C17: the chunk rows of a stored document with n chunks carry the indices
\* 0..n-1, each once, and the row of index i holds the i-th chunk (counted
\* from 0) of the chunk sequence of the document's text.
C17_ChunkIndexContiguous ==
    \A d \in documents :
        LET rows == ChunksOfDocument(d)
            n == Cardinality(rows)
            produced == chunk_text(d.content)
        IN
        /\ {dc.chunk_index : dc \in rows} = 0..(n - 1)
        /\ \A x, y \in rows : x.chunk_index = y.chunk_index => x = y
        /\ \A dc \in rows :
              /\ dc.chunk_index + 1 \in DOMAIN produced
              /\ dc.chunk_text = produced[dc.chunk_index + 1]

\* C17 witness: a stored document has two chunks or more, and its text held a
\* piece that chunk_text dropped ahead of the last of them.
C17_Witness ==
    \E d \in documents :
        /\ Cardinality(ChunksOfDocument(d)) >= 2
        /\ \E dc \in ChunksOfDocument(d) :
              /\ dc.chunk_index >= 1
              /\ split_text(d.content)[dc.chunk_index + 1] # dc.chunk_text

\* out holds, in the order of pieces, exactly the pieces at the positions kept
FilteredInOrder(pieces, out, kept) ==
    /\ Len(out) = Cardinality(kept)
    /\ \A i \in kept : out[Cardinality({j \in kept : j <= i})] = pieces[i]

\* C18: for the text of every stored document, chunk_text returns,
\* in splitter order, exactly the pieces of at least 50 trimmed characters.
C18_KeepsAtLeastFifty ==
    \A d \in documents :
        LET pieces == split_text(d.content) IN
        FilteredInOrder(pieces, chunk_text(d.content),
                        {i \in DOMAIN pieces : pieces[i].n >= MIN_CHUNK_LEN})

\* the file's name ends in none of .pdf, .docx, .txt
UnsupportedType(file) == file.filename[Len(file.filename)] \notin {".pdf", ".docx", ".txt"}

\* C19: a file of an unsupported type (whose name is not already in the chat)
\* never ends the batch with an error; once the loop is past it, it is in
\* skipped with the unsupported-type reason and no document and no chunk
\* was made for it.
C19_UnsupportedSkipped ==
    \A r \in UploadIds : \A p \in DOMAIN uploads[r].files :
        LET u == uploads[r] IN
        (UnsupportedType(u.files[p]) /\ u.files[p].filename \notin u.existing_filenames) =>
            /\ ~(u.pc = "done" /\ u.status = 500 /\ u.i = p)
            /\ Passed(u, p) =>
                 /\ [filename |-> u.files[p].filename, reason |-> UNSUPPORTED] \in Range(u.skipped_docs)
                 /\ \A e \in Range(u.uploaded_docs) : e.filename # u.files[p].filename
                 /\ \A d \in documents : d.id # DocumentId(r, p)
                 /\ \A dc \in document_chunks : dc.document_id # DocumentId(r, p)

\* C19 witness: an upload has skipped a file of an unsupported type and has
\* then stored the next file of the batch with its chunks.
C19_Witness ==
    \E r \in UploadIds : \E p \in DOMAIN uploads[r].files :
        LET u == uploads[r] IN
        /\ UnsupportedType(u.files[p])
        /\ [filename |-> u.files[p].filename, reason |-> UNSUPPORTED] \in Range(u.skipped_docs)
        /\ \E d \in documents :
              /\ d.id = DocumentId(r, p + 1)
              /\ d.filename = u.files[p + 1].filename
              /\ ChunksOfDocument(d) # {}

\* this step is DELETE /chats/{c}: afterwards neither the chat nor any row of
\* it is left, and the rows of the other chats are as before
DeletesChat(c) ==
    /\ received' = received + 1
    /\ ~ChatExists(chats', c)
    /\ \A x \in chat_messages' \cup documents' \cup document_chunks' : x.chat_id # c
    /\ \A x \in chat_messages : x.chat_id # c => x \in chat_messages'

\* C20: in every step, a stored message either is still stored, the same in
\* every field, or is gone (no row of its id is left) because the step is
\* delete_chat of its chat.
C20_MessageImmutable ==
    [][\A m \in chat_messages :
          \/ m \in chat_messages'
          \/ /\ \A x \in chat_messages' : x.id # m.id
             /\ DeletesChat(m.chat_id)]_vars

\* C20 witness: a chat holds the messages of two queries, the earlier one
\* still there after the later one was recorded.
C20_Witness ==
    \E m1, m2 \in chat_messages :
        /\ m1.chat_id = m2.chat_id
        /\ m1.timestamp < m2.timestamp
        /\ \A q \in QueryIds : queries[q].pc = "done"

\* the message of query q is what a read of its chat returns, and the chat's
\* updated_at is not earlier than it
Observed(q) ==
    LET s == queries[q] IN
    /\ \E m \in get_chat_messages(chat_messages, s.chat_id) :
          /\ m.id = MessageId(q) /\ m.message = s.query /\ m.response = s.response
          /\ \A c \in chats : c.id = s.chat_id => c.updated_at >= m.timestamp

\* C21: once a query that recorded a message has returned, every read of its
\* chat, as long as the chat exists, returns the message and an updated_at not
\* earlier than the message; and no step moves the updated_at of a chat
\* backwards.
C21_ObservedInIssueOrder ==
    /\ [](\A q \in QueryIds :
            (queries[q].pc = "done" /\ queries[q].generated /\ ChatExists(chats, queries[q].chat_id))
            => Observed(q))
    /\ [][\A c \in chats : \A d \in chats' : d.id = c.id => d.updated_at >= c.updated_at]_vars

\* C21 witness: two queries of one chat have returned, both messages are
\* read back, and the chat carries the time of the later one.
C21_Witness ==
    \E q1, q2 \in QueryIds : \E c \in chats : \E m1, m2 \in get_chat_messages(chat_messages, c.id) :
        /\ q1 # q2
        /\ queries[q1].pc = "done" /\ queries[q1].generated /\ queries[q1].chat_id = c.id
        /\ queries[q2].pc = "done" /\ queries[q2].generated /\ queries[q2].chat_id = c.id
        /\ m1.id = MessageId(q1) /\ m2.id = MessageId(q2)
        /\ m1.timestamp < m2.timestamp
        /\ c.updated_at = m2.timestamp

\* C22: every document, chunk and message carries the chat_id of a chat that
\* exists.
C22_RowsBelongToExistingChat ==
    \A x \in documents \cup document_chunks \cup chat_messages : ChatExists(chats, x.chat_id)

\* the rows of chat b (its Chat row, documents, chunks, messages) in the four tables
RowsOfChat(cs, docs, chunks, msgs, b) ==
    <<{c \in cs : c.id = b}, {d \in docs : d.chat_id = b},
      {dc \in chunks : dc.chat_id = b}, {m \in msgs : m.chat_id = b}>>

\* this step changes a row of chat b
Touched(b) ==
    RowsOfChat(chats', documents', document_chunks', chat_messages', b)
        # RowsOfChat(chats, documents, document_chunks, chat_messages, b)

\* this step belongs to an operation addressed to chat a: a step of an upload
\* or of a query of chat a, or a delete request that removed rows of chat a
Addressed(a) ==
    \/ \E r \in UploadIds : uploads'[r] # uploads[r] /\ uploads'[r].chat_id = a
    \/ \E q \in QueryIds : queries'[q] # queries[q] /\ queries'[q].chat_id = a
    \/ /\ uploads' = uploads /\ queries' = queries /\ received' = received + 1
       /\ Touched(a)

\* C23: a step of an operation addressed to chat A changes no Chat row, no
\* updated_at, no document, no chunk and no message of any other chat B.
C23_OtherChatsUntouched ==
    [][\A a, b \in ChatIds : (a # b /\ Addressed(a)) => ~Touched(b)]_vars

\* C23 witness: a query of chat A has recorded its message while another chat
\* B holds a document and chunks; B has no message and its updated_at is
\* still its creation time.
C23_Witness ==
    \E q \in QueryIds : \E b \in chats :
        /\ queries[q].pc = "done" /\ queries[q].generated
        /\ \E m \in chat_messages : m.id = MessageId(q)
        /\ b.id # queries[q].chat_id
        /\ ChatExists(chats, queries[q].chat_id)
        /\ get_chat_documents(documents, b.id) # {}
        /\ ChunksOfChat(b.id) # {}
        /\ get_chat_messages(chat_messages, b.id) = {}
        /\ b.updated_at = b.created_at

\* upload r ends with an error in this step
FailsNow(r) ==
    uploads[r].pc \in {"read", "embed"} /\ uploads'[r].pc = "done" /\ uploads'[r].status = 500

\* C24: with requests served one at a time, when an upload ends with an error
\* the documents of the files it had fully processed are committed with all
\* their chunks after that step; and a later upload of the same batch to the
\* same chat puts each of those files whose document is still there in
\* skipped with the already-exists reason and stores nothing for it.
C24_EarlierFilesStayCommitted ==
    /\ [][\A r \in UploadIds :
            FailsNow(r) =>
              \A e \in Range(uploads[r].uploaded_docs) :
                 /\ \E d \in documents' :
                       d.id = e.id /\ d.filename = e.filename /\ d.chat_id = uploads[r].chat_id
                 /\ Cardinality({dc \in document_chunks' : dc.document_id = e.id}) = e.chunks_count]_vars
    /\ [](\A r1, r2 \in UploadIds :
            LET u1 == uploads[r1]
                u2 == uploads[r2]
            IN
            (/\ r1 < r2 /\ u1.pc = "done" /\ u1.status = 500
             /\ u2.pc # "idle" /\ u2.files = u1.files /\ u2.chat_id = u1.chat_id)
            => \A p \in DOMAIN u2.files :
                 (/\ Passed(u2, p)
                  /\ \E e \in Range(u1.uploaded_docs) : e.id = DocumentId(r1, p)
                  /\ \E d \in documents : d.id = DocumentId(r1, p))
                 => /\ [filename |-> u2.files[p].filename, reason |-> ALREADY_EXISTS] \in Range(u2.skipped_docs)
                    /\ \A d \in documents : d.id # DocumentId(r2, p)
                    /\ \A dc \in document_chunks : dc.document_id # DocumentId(r2, p))

\* C24 witness: an upload failed after it had stored an earlier file of its
\* batch; that document and its chunks are still there, and the retry of the
\* batch has returned with the file in skipped as already existing.
C24_Witness ==
    \E r1, r2 \in UploadIds :
        LET u1 == uploads[r1]
            u2 == uploads[r2]
        IN
        /\ r1 < r2 /\ u1.pc = "done" /\ u1.status = 500
        /\ u2.pc = "done" /\ u2.status = 200 /\ u2.files = u1.files /\ u2.chat_id = u1.chat_id
        /\ \E e \in Range(u1.uploaded_docs) :
              /\ \E d \in documents : d.id = e.id /\ ChunksOfDocument(d) # {}
              /\ [filename |-> e.filename, reason |-> ALREADY_EXISTS] \in Range(u2.skipped_docs)

====
